---------------------------- MODULE Spec2Model ----------------------------
(***************************************************************************)
(* A model of cto5.py, the HTML -> HTML5 converter.  The document buffer   *)
(* is a TLA+ string (a sequence of characters); every rewrite rule of      *)
(* convert_to_html5 is an action that replaces the buffer by the result of *)
(* the rule's regular-expression substitution, computed by a backtracking  *)
(* matcher with the priorities of Python's re module (leftmost match,      *)
(* greedy/lazy repetition, ordered alternation, groups, back-references,   *)
(* negative lookahead, \b).                                                *)
(***************************************************************************)
EXTENDS Naturals, Sequences, FiniteSets, TLC

(***************************************************************************)
(* Characters and character classes.                                       *)
(***************************************************************************)
At(s, i) == SubSeq(s, i, i)

UpperChars == "ABCDEFGHIJKLMNOPQRSTUVWXYZ"
LowerChars == "abcdefghijklmnopqrstuvwxyz"
DigitChars == "0123456789"

SetOf(str) == {At(str, k) : k \in 1..Len(str)}

\* str.lower() of one character, as re.IGNORECASE compares characters
LowerOf ==
  [c \in SetOf(UpperChars) |->
     At(LowerChars, CHOOSE k \in 1..Len(UpperChars) : At(UpperChars, k) = c)]
Lower(c) == IF c \in DOMAIN LowerOf THEN LowerOf[c] ELSE c

\* \d, \w and \s of Python's re on the characters a document can hold
Digit == SetOf(DigitChars)
Word  == SetOf(UpperChars) \cup SetOf(LowerChars) \cup Digit \cup {"_"}
Space == {" ", "\t", "\n", "\r", "\f"}
Quote == {"\"", "'"}

\* [\x00-\x08\x0B\x0C\x0E-\x1F\x7F-\x9F]: of these, a TLA+ string can hold \f (0x0C)
ControlChars == {"\f"}

(***************************************************************************)
(* Regular expressions: a pattern is a sequence of nodes.                  *)
(***************************************************************************)
Ch(c)        == [t |-> "ch", c |-> c]                    \* a literal character
In(S)        == [t |-> "in", s |-> S]                    \* [...]
NotIn(S)     == [t |-> "notin", s |-> S]                 \* [^...]
Rep(r, lo)   == [t |-> "rep", r |-> r, lo |-> lo, greedy |-> TRUE]    \* r* r+
Lazy(r, lo)  == [t |-> "rep", r |-> r, lo |-> lo, greedy |-> FALSE]   \* r*? r+?
Opt(p)       == [t |-> "opt", p |-> p]                   \* (?:p)?
Alt(ps)      == [t |-> "alt", ps |-> ps]                 \* p1|p2|...
Grp(n, p)    == [t |-> "grp", n |-> n, p |-> p]          \* (p), group n
Ref(n)       == [t |-> "ref", n |-> n]                   \* \n
NotAhead(p)  == [t |-> "nla", p |-> p]                   \* (?!p)
WordB        == [t |-> "wb"]                             \* \b
Lit(str)     == <<[t |-> "lit", s |-> str]>>             \* a literal string
Dot          == NotIn({"\n"})                            \* . without re.DOTALL
AnyCh        == NotIn({})                                \* . with re.DOTALL

\* the groups a match can set: none of the patterns has more than three
NoGroups == <<<<0, 0>>, <<0, 0>>, <<0, 0>>>>
FAIL == [ok |-> FALSE, start |-> 0, end |-> 0, g |-> NoGroups]

\* one character against a one-character node, under re.IGNORECASE when ic
Has(n, c, ic) ==
  CASE n.t = "ch"    -> c = n.c \/ (ic /\ Lower(c) = Lower(n.c))
    [] n.t = "in"    -> c \in n.s \/ (ic /\ Lower(c) \in {Lower(x) : x \in n.s})
    [] n.t = "notin" -> ~(c \in n.s \/ (ic /\ Lower(c) \in {Lower(x) : x \in n.s}))

\* two texts of one length, equal (under re.IGNORECASE: up to case)
SameText(a, b, ic) ==
  a = b \/ (ic /\ \A k \in 1..Len(a) : Lower(At(a, k)) = Lower(At(b, k)))

\* how many consecutive characters from position i the one-character node takes
RECURSIVE Run(_, _, _, _)
Run(n, s, i, ic) ==
  IF i <= Len(s) /\ Has(n, At(s, i), ic) THEN 1 + Run(n, s, i + 1, ic) ELSE 0

IsWordAt(s, i) == i >= 1 /\ i <= Len(s) /\ At(s, i) \in Word

\* the text of group n of a match
Group(s, m, n) == SubSeq(s, m.g[n][1], m.g[n][2] - 1)

(***************************************************************************)
(* The backtracking matcher: the first way, in the order Python's re tries *)
(* them, to match the pattern p at position i of s; the match's end is the *)
(* position after its last character.                                      *)
(***************************************************************************)
Max(S) == CHOOSE x \in S : \A y \in S : y <= x
Min(S) == CHOOSE x \in S : \A y \in S : x <= y

\* the first of two match results that is a match
OrElse(r, other) == IF r.ok THEN r ELSE other

RECURSIVE MatchAt(_, _, _, _, _), TryAlt(_, _, _, _, _, _), TryRep(_, _, _, _, _, _, _),
          TakeRep(_, _, _, _, _, _, _)
MatchAt(p, s, i, g, ic) ==
  IF p = <<>> THEN [ok |-> TRUE, start |-> 0, end |-> i, g |-> g]
  ELSE LET n == Head(p)
           rest == Tail(p)
       IN CASE n.t \in {"ch", "in", "notin"} ->
                 IF i <= Len(s) /\ Has(n, At(s, i), ic)
                 THEN MatchAt(rest, s, i + 1, g, ic) ELSE FAIL
            [] n.t = "lit" ->
                 IF i + Len(n.s) - 1 <= Len(s)
                    /\ SameText(SubSeq(s, i, i + Len(n.s) - 1), n.s, ic)
                 THEN MatchAt(rest, s, i + Len(n.s), g, ic) ELSE FAIL
            [] n.t = "rep" -> TryRep(rest, s, i, g, ic, n, Run(n.r, s, i, ic))
            [] n.t = "opt" ->
                 OrElse(MatchAt(n.p \o rest, s, i, g, ic), MatchAt(rest, s, i, g, ic))
            [] n.t = "alt" -> TryAlt(n.ps, rest, s, i, g, ic)
            [] n.t = "grp" ->
                 MatchAt(<<[t |-> "open", n |-> n.n]>> \o n.p
                           \o <<[t |-> "close", n |-> n.n]>> \o rest, s, i, g, ic)
            [] n.t = "open" ->
                 MatchAt(rest, s, i, [g EXCEPT ![n.n] = <<i, 0>>], ic)
            [] n.t = "close" ->
                 MatchAt(rest, s, i, [g EXCEPT ![n.n] = <<g[n.n][1], i>>], ic)
            [] n.t = "ref" ->
                 LET txt == SubSeq(s, g[n.n][1], g[n.n][2] - 1)
                     j == i + Len(txt)
                 IN IF g[n.n][2] > 0 /\ j - 1 <= Len(s) /\ SameText(SubSeq(s, i, j - 1), txt, ic)
                    THEN MatchAt(rest, s, j, g, ic) ELSE FAIL
            [] n.t = "nla" ->
                 IF MatchAt(n.p, s, i, g, ic).ok THEN FAIL
                 ELSE MatchAt(rest, s, i, g, ic)
            [] n.t = "wb" ->
                 IF IsWordAt(s, i - 1) # IsWordAt(s, i)
                 THEN MatchAt(rest, s, i, g, ic) ELSE FAIL

\* a repetition that can take n.lo..hi characters: a greedy one takes the most
\* with which the rest of the pattern matches, a lazy one the fewest
TryRep(rest, s, i, g, ic, n, hi) ==
  TakeRep(rest, s, i, g, ic, n.greedy,
          {k \in n.lo..hi : MatchAt(rest, s, i + k, g, ic).ok})
TakeRep(rest, s, i, g, ic, greedy, ks) ==
  IF ks = {} THEN FAIL
  ELSE MatchAt(rest, s, i + (IF greedy THEN Max(ks) ELSE Min(ks)), g, ic)

\* the alternatives in their order
TryAlt(ps, rest, s, i, g, ic) ==
  IF ps = <<>> THEN FAIL
  ELSE OrElse(MatchAt(Head(ps) \o rest, s, i, g, ic), TryAlt(Tail(ps), rest, s, i, g, ic))

\* the match that starts at one of the positions `starts`: the leftmost
MatchFirst(p, s, ic, starts) ==
  IF starts = {} THEN FAIL
  ELSE [MatchAt(p, s, Min(starts), NoGroups, ic) EXCEPT !.start = Min(starts)]

\* re.search from position i: the leftmost match
SearchFrom(p, s, i, ic) ==
  MatchFirst(p, s, ic, {j \in i..Len(s) + 1 : MatchAt(p, s, j, NoGroups, ic).ok})

Search(p, s, ic) == SearchFrom(p, s, 1, ic)

\* re.finditer: the non-overlapping matches from left to right (no pattern of
\* the program matches the empty string; an empty match would step one character)
RECURSIVE FindFrom(_, _, _, _), FindMore(_, _, _, _)
FindFrom(p, s, i, ic) == FindMore(p, s, ic, SearchFrom(p, s, i, ic))
FindMore(p, s, ic, r) ==
  IF ~r.ok THEN <<>>
  ELSE <<r>> \o FindFrom(p, s, IF r.end > r.start THEN r.end ELSE r.end + 1, ic)

FindAll(p, s, ic) == FindFrom(p, s, 1, ic)

\* the text of a match
MatchText(s, m) == SubSeq(s, m.start, m.end - 1)

\* s with its matches ms replaced, Repl(m) being the text put for match m
SubAll(ms, s, Repl(_)) ==
  LET out[k \in 0..Len(ms)] ==
        IF k = 0 THEN ""
        ELSE out[k - 1]
               \o SubSeq(s, IF k = 1 THEN 1 ELSE ms[k - 1].end, ms[k].start - 1)
               \o Repl(ms[k])
  IN IF ms = <<>> THEN s
     ELSE out[Len(ms)] \o SubSeq(s, ms[Len(ms)].end, Len(s))

\* re.sub with a replacement function
Sub(p, s, ic, Repl(_)) == SubAll(FindAll(p, s, ic), s, Repl)

Delete(m) == ""

(***************************************************************************)
(* Python's string methods.                                                *)
(***************************************************************************)
\* str.strip(chars) / str.rstrip(chars), chars a set of characters
RECURSIVE LStrip(_, _), RStrip(_, _)
LStrip(s, S) == IF Len(s) > 0 /\ At(s, 1) \in S THEN LStrip(Tail(s), S) ELSE s
RStrip(s, S) ==
  IF Len(s) > 0 /\ At(s, Len(s)) \in S THEN RStrip(SubSeq(s, 1, Len(s) - 1), S) ELSE s
Strip(s, S) == LStrip(RStrip(s, S), S)

\* str.split(c) on a one-character separator: the pieces, empty ones included
RECURSIVE SplitFrom(_, _, _, _)
SplitFrom(s, c, i, from) ==
  IF i > Len(s) THEN <<SubSeq(s, from, Len(s))>>
  ELSE IF At(s, i) = c
       THEN <<SubSeq(s, from, i - 1)>> \o SplitFrom(s, c, i + 1, i + 1)
       ELSE SplitFrom(s, c, i + 1, from)
Split(s, c) == SplitFrom(s, c, 1, 1)

\* sep.join(parts)
RECURSIVE Join(_, _)
Join(parts, sep) ==
  IF parts = <<>> THEN ""
  ELSE IF Len(parts) = 1 THEN parts[1]
       ELSE parts[1] \o sep \o Join(Tail(parts), sep)

\* str.isdigit()
IsDigit(s) == Len(s) > 0 /\ \A k \in 1..Len(s) : At(s, k) \in Digit

\* str.replace(old, new): every occurrence, left to right; an empty old is
\* only ever replaced by an empty new (an empty style element), which changes nothing
Replace(s, old, new) ==
  IF old = "" THEN s ELSE Sub(Lit(old), s, FALSE, LAMBDA m : new)

\* str.replace(old, new, 1): the first occurrence
Splice(s, m, new) ==
  IF m.ok THEN SubSeq(s, 1, m.start - 1) \o new \o SubSeq(s, m.end, Len(s)) ELSE s
ReplaceFirst(s, old, new) == Splice(s, Search(Lit(old), s, FALSE), new)

\* [f(x) for x in xs if keep(x)] for the two list comprehensions of merge_styles
RECURSIVE StrippedParts(_)
StrippedParts(parts) ==
  IF parts = <<>> THEN <<>>
  ELSE LET x == Strip(Head(parts), Space)
       IN (IF x = "" THEN <<>> ELSE <<x>>) \o StrippedParts(Tail(parts))

(***************************************************************************)
(* The patterns of the program.                                            *)
(***************************************************************************)
NotGt  == NotIn({">"})
NotQ   == NotIn(Quote)
Sp0    == Rep(In(Space), 0)                       \* \s*
Sp1    == Rep(In(Space), 1)                       \* \s+

\* r'[\x00-\x08\x0B\x0C\x0E-\x1F\x7F-\x9F]'
ControlRe == <<In(ControlChars)>>
\* r'<\?xml[^>]*\?>[\r\n]*[\n\r]*'
XmlDeclRe ==
  Lit("<?xml") \o <<Rep(NotGt, 0)>> \o Lit("?>")
    \o <<Rep(In({"\r", "\n"}), 0), Rep(In({"\n", "\r"}), 0)>>
\* r'<!DOCTYPE[^>]*>'
DoctypeRe == Lit("<!DOCTYPE") \o <<Rep(NotGt, 0), Ch(">")>>
\* r'<html[^>]*>'
HtmlTagRe == Lit("<html") \o <<Rep(NotGt, 0), Ch(">")>>
\* r'\s+xmlns="[^"]*"', r'\s+xml:lang="[^"]*"', r'\s+lang="([^"]*)"'
XmlnsRe   == <<Sp1>> \o Lit("xmlns=\"") \o <<Rep(NotIn({"\""}), 0), Ch("\"")>>
XmlLangRe == <<Sp1>> \o Lit("xml:lang=\"") \o <<Rep(NotIn({"\""}), 0), Ch("\"")>>
LangRe    == <<Sp1>> \o Lit("lang=\"") \o <<Grp(1, <<Rep(NotIn({"\""}), 0)>>), Ch("\"")>>
\* r'[\s]*<meta[^>]*Content-Style-Type[^>]*/?>[\s]*\n?'
StyleTypeMetaRe ==
  <<Sp0>> \o Lit("<meta") \o <<Rep(NotGt, 0)>> \o Lit("Content-Style-Type")
    \o <<Rep(NotGt, 0), Opt(<<Ch("/")>>), Ch(">"), Sp0, Opt(<<Ch("\n")>>)>>
\* r'<meta[^>]+charset=[^>]*>|<meta\s+http-equiv=["\']Content-Type["\'][^>]*>'
CharsetMetaRe ==
  <<Alt(<<Lit("<meta") \o <<Rep(NotGt, 1)>> \o Lit("charset=") \o <<Rep(NotGt, 0), Ch(">")>>,
          Lit("<meta") \o <<Sp1>> \o Lit("http-equiv=") \o <<In(Quote)>>
            \o Lit("Content-Type") \o <<In(Quote), Rep(NotGt, 0), Ch(">")>> >>)>>
\* r'(<head[^>]*>)'
HeadRe == <<Grp(1, Lit("<head") \o <<Rep(NotGt, 0), Ch(">")>>)>>
\* r'\s+xml:space=["\'][^"\']*["\']'
XmlSpaceRe == <<Sp1>> \o Lit("xml:space=") \o <<In(Quote), Rep(NotQ, 0), In(Quote)>>
\* r'<style\s+type=["\']text/css["\']'
StyleTypeRe ==
  Lit("<style") \o <<Sp1>> \o Lit("type=") \o <<In(Quote)>> \o Lit("text/css") \o <<In(Quote)>>
\* r'(<style[^>]*>)\s*<!\[CDATA\[(.*?)\]\]>\s*(</style>)', re.DOTALL
CdataRe ==
  <<Grp(1, Lit("<style") \o <<Rep(NotGt, 0), Ch(">")>>), Sp0>> \o Lit("<![CDATA[")
    \o <<Grp(2, <<Lazy(AnyCh, 0)>>)>> \o Lit("]]>") \o <<Sp0, Grp(3, Lit("</style>"))>>
\* r'(<style[^>]*>)\s*/\*<!\[CDATA\[\*/\s*(.*?)\s*/\*\]\]>\*/\s*(</style>)', re.DOTALL
CdataGuardRe ==
  <<Grp(1, Lit("<style") \o <<Rep(NotGt, 0), Ch(">")>>), Sp0>> \o Lit("/*<![CDATA[*/")
    \o <<Sp0, Grp(2, <<Lazy(AnyCh, 0)>>), Sp0>> \o Lit("/*]]>*/")
    \o <<Sp0, Grp(3, Lit("</style>"))>>
\* r'<style[^>]*>(.*?)</style>', re.DOTALL
StyleElemRe ==
  Lit("<style") \o <<Rep(NotGt, 0), Ch(">"), Grp(1, <<Lazy(AnyCh, 0)>>)>> \o Lit("</style>")
\* r'\s*\/\/\s*-->\s*'
CssCloserRe == <<Sp0>> \o Lit("//") \o <<Sp0>> \o Lit("-->") \o <<Sp0>>
\* r'\s*\/\*\s*XML\s+end\s*\]\]>\s*\*\/\s*'
CssXmlEndRe ==
  <<Sp0>> \o Lit("/*") \o <<Sp0>> \o Lit("XML") \o <<Sp1>> \o Lit("end") \o <<Sp0>>
    \o Lit("]]>") \o <<Sp0>> \o Lit("*/") \o <<Sp0>>
\* r'\s*\]\]>\s*'
CssCdataEndRe == <<Sp0>> \o Lit("]]>") \o <<Sp0>>
\* r'<tt([^>]*)>' etc.
OpenTagRe(name)  == Lit("<" \o name) \o <<Grp(1, <<Rep(NotGt, 0)>>), Ch(">")>>
CloseTagRe(name) == Lit("</" \o name \o ">")
\* ["\'][^"\']*["\']
QuotedRe == <<In(Quote), Rep(NotQ, 0), In(Quote)>>
\* r'<a([^>]*?)\s+id=(["\'][^"\']*["\'])\s+name=\2([^>]*?)>'
AnchorIdNameRe ==
  Lit("<a") \o <<Grp(1, <<Lazy(NotGt, 0)>>), Sp1>> \o Lit("id=") \o <<Grp(2, QuotedRe), Sp1>>
    \o Lit("name=") \o <<Ref(2), Grp(3, <<Lazy(NotGt, 0)>>), Ch(">")>>
\* r'<a([^>]*?)\s+name=(["\'][^"\']*["\'])\s+id=\2([^>]*?)>'
AnchorNameIdRe ==
  Lit("<a") \o <<Grp(1, <<Lazy(NotGt, 0)>>), Sp1>> \o Lit("name=") \o <<Grp(2, QuotedRe), Sp1>>
    \o Lit("id=") \o <<Ref(2), Grp(3, <<Lazy(NotGt, 0)>>), Ch(">")>>
\* r'<a([^>]*?)\s+name=(["\'][^"\']*["\'])(?![^>]*?\s+id=)([^>]*?)>'
AnchorNameRe ==
  Lit("<a") \o <<Grp(1, <<Lazy(NotGt, 0)>>), Sp1>> \o Lit("name=")
    \o <<Grp(2, QuotedRe), NotAhead(<<Lazy(NotGt, 0), Sp1>> \o Lit("id=")),
         Grp(3, <<Lazy(NotGt, 0)>>), Ch(">")>>

(***************************************************************************)
(* Rules 1-14 of convert_to_html5: each takes the buffer and gives the     *)
(* next buffer.                                                            *)
(***************************************************************************)
\* rule 1: remove forbidden control characters
StripControl(content) == Sub(ControlRe, content, FALSE, Delete)

\* rule 2: remove XML declaration and any following blank lines (one re.sub pass)
RemoveXmlDecl(content) == Sub(XmlDeclRe, content, FALSE, Delete)

\* rule 3: replace DOCTYPE
ReplaceDoctype(content) == Sub(DoctypeRe, content, TRUE, LAMBDA m : "<!DOCTYPE html>")

\* rule 4, clean_html_tag: the first lang value found if any exist, else lang
FinalLang(lang_matches, full_tag, lang) ==
  IF lang_matches # <<>> THEN Group(full_tag, lang_matches[1], 1) ELSE lang
\* remove all lang attributes and insert the lang attribute after the first "html"
SetLang(full_tag, lang) ==
  ReplaceFirst(Sub(LangRe, full_tag, FALSE, Delete), "html",
               "html lang=\"" \o FinalLang(FindAll(LangRe, full_tag, FALSE), full_tag, lang)
                 \o "\"")
\* the replacement function of the <html ...> tag
clean_html_tag(full_tag, lang) ==
  SetLang(Sub(XmlLangRe, Sub(XmlnsRe, full_tag, FALSE, Delete), FALSE, Delete), lang)

CleanHtmlTag(content, lang) ==
  Sub(HtmlTagRe, content, TRUE, LAMBDA m : clean_html_tag(MatchText(content, m), lang))

\* rule 5: remove Content-Style-Type meta tag
RemoveStyleTypeMeta(content) == Sub(StyleTypeMetaRe, content, TRUE, Delete)

\* rule 6: replace or add UTF-8 charset meta tag
Utf8Meta == "<meta charset=\"utf-8\">"
ReplaceOrAddMeta(content, old_meta) ==
  IF old_meta.ok
  THEN Replace(content, MatchText(content, old_meta), Utf8Meta)
  ELSE Sub(HeadRe, content, TRUE, LAMBDA m : Group(content, m, 1) \o "\n    " \o Utf8Meta)
CharsetMeta(content) == ReplaceOrAddMeta(content, Search(CharsetMetaRe, content, TRUE))

\* rule 7: remove xml:space attributes
RemoveXmlSpace(content) == Sub(XmlSpaceRe, content, TRUE, Delete)

\* rule 8: remove type="text/css" from style tags
StripStyleType(content) == Sub(StyleTypeRe, content, TRUE, LAMBDA m : "<style")

\* rule 9: remove CDATA sections from style tags (two re.sub passes with r'\1\2\3')
KeepGroups(p, s) ==
  Sub(p, s, TRUE, LAMBDA m : Group(s, m, 1) \o Group(s, m, 2) \o Group(s, m, 3))
UnwrapCdata(content) == KeepGroups(CdataGuardRe, KeepGroups(CdataRe, content))

clean_css_comments(css_content) ==
  Sub(CssCdataEndRe,
      Sub(CssXmlEndRe, Sub(CssCloserRe, css_content, FALSE, Delete), FALSE, Delete),
      FALSE, Delete)

\* rule 10: the loop over the matches ms of re.finditer(<style...>(.*?)</style>)
\* on the buffer as it was before the loop; each turn replaces the element's
\* content wherever that text occurs in the current buffer (str.replace)
CleanEach(ms, content) ==
  LET buf[k \in 0..Len(ms)] ==
        IF k = 0 THEN content
        ELSE Replace(buf[k - 1], Group(content, ms[k], 1),
                     clean_css_comments(Group(content, ms[k], 1)))
  IN buf[Len(ms)]
CleanStyleCss(content) == CleanEach(FindAll(StyleElemRe, content, TRUE), content)

\* rules 11-13: r'<tt([^>]*)>' to before \1 after, r'</tt>' to close
Retagged(name, content, before, after, close) ==
  Sub(CloseTagRe(name),
      Sub(OpenTagRe(name), content, TRUE, LAMBDA m : before \o Group(content, m, 1) \o after),
      TRUE, LAMBDA m : close)

\* rule 11: <tt> to span with monospace style
ConvertTt(content) ==
  Retagged("tt", content, "<span", " style=\"font-family: monospace;\">", "</span>")
\* rule 12: <big> to span with style
ConvertBig(content) ==
  Retagged("big", content, "<span style=\"font-size: larger\"", ">", "</span>")
\* rule 13: <center> to div with style
ConvertCenter(content) ==
  Retagged("center", content, "<div style=\"text-align: center\"", ">", "</div>")

\* rule 14: name and id attributes in anchors (three re.sub passes, the
\* replacement r'<a\1 id=\2\3>' each time)
AnchorSub(p, s) ==
  Sub(p, s, TRUE,
      LAMBDA m : "<a" \o Group(s, m, 1) \o " id=" \o Group(s, m, 2) \o Group(s, m, 3) \o ">")
ConvertAnchors(content) ==
  AnchorSub(AnchorNameRe, AnchorSub(AnchorNameIdRe, AnchorSub(AnchorIdNameRe, content)))

\* rule 19: convert self-closing tags
StripSelfClosing(content) == Sub(Lit("/>"), content, FALSE, LAMBDA m : ">")

(***************************************************************************)
(* Results that may be an exception: re.sub raises re.error (or IndexError)*)
(* when its replacement template is malformed.                             *)
(***************************************************************************)
Ok(x) == [err |-> FALSE, s |-> x]
Raise == [err |-> TRUE, s |-> ""]
Cons(x, r) == IF r.err THEN r ELSE Ok(x \o r.s)

OctDigits    == SetOf("01234567")
AsciiLetters == SetOf(UpperChars) \cup SetOf(LowerChars)
\* the characters with codes 32..95 and 97..126, in order (a TLA+ string
\* cannot hold the character 96)
Printable ==
  " !\"#$%&'()*+,-./0123456789:;<=>?@ABCDEFGHIJKLMNOPQRSTUVWXYZ[\\]^_"
PrintableLow == "abcdefghijklmnopqrstuvwxyz{|}~"

\* chr(code), for the codes of characters a TLA+ string can hold
Chr(code) ==
  CASE code = 9  -> "\t"
    [] code = 10 -> "\n"
    [] code = 12 -> "\f"
    [] code = 13 -> "\r"
    [] code \in 32..95  -> At(Printable, code - 31)
    [] code \in 97..126 -> At(PrintableLow, code - 96)

DigitVal(c) == (CHOOSE k \in 1..Len(DigitChars) : At(DigitChars, k) = c) - 1
\* int(str, base) of a string of digits
RECURSIVE IntOf(_, _)
IntOf(str, base) ==
  IF str = "" THEN 0
  ELSE IntOf(SubSeq(str, 1, Len(str) - 1), base) * base + DigitVal(At(str, Len(str)))

\* the position of the first c in s at or after i, 0 when there is none
IndexFrom(s, c, i) ==
  IF \E k \in i..Len(s) : At(s, k) = c
  THEN Min({k \in i..Len(s) : At(s, k) = c}) ELSE 0

\* str.isidentifier()
IsIdentifier(name) ==
  /\ Len(name) > 0
  /\ At(name, 1) \in Word \ Digit
  /\ \A k \in 1..Len(name) : At(name, k) \in Word

(***************************************************************************)
(* re._parser.parse_template and the expansion of the parsed template for  *)
(* match m of s, for a pattern with ngroups groups: \g<n> and \n are group *)
(* references, \0 and \ooo octal escapes, \f \n \r \t \\ character         *)
(* escapes, a backslash before any other ASCII letter is an error, before  *)
(* any other character it stays.  (\a, \b and \v give characters a TLA+    *)
(* string cannot hold, and a \g<...> name that is neither decimal nor an   *)
(* identifier is read differently by different Python versions: on these   *)
(* the operator is undefined.)                                             *)
(***************************************************************************)
GroupOrAll(s, m, n) == IF n = 0 THEN MatchText(s, m) ELSE Group(s, m, n)

\* the end of the literal text of tpl that starts at i: the next backslash
LiteralEnd(tpl, i) == Min({k \in i..Len(tpl) : At(tpl, k) = "\\"} \cup {Len(tpl) + 1})

RECURSIVE ExpandFrom(_, _, _, _, _), ExpandLiteral(_, _, _, _, _, _)
ExpandFrom(tpl, i, s, m, ngroups) ==
  IF i > Len(tpl) THEN Ok("")
  ELSE IF At(tpl, i) # "\\" THEN ExpandLiteral(tpl, i, LiteralEnd(tpl, i), s, m, ngroups)
  ELSE IF i = Len(tpl) THEN Raise
  ELSE
    LET c  == At(tpl, i + 1)
        d2 == At(tpl, i + 2)
        d3 == At(tpl, i + 3)
    IN CASE c = "g" ->
              LET close == IndexFrom(tpl, ">", i + 3)
                  name  == SubSeq(tpl, i + 3, close - 1)
              IN IF d2 # "<" \/ close = 0 \/ name = "" THEN Raise
                 ELSE (CASE IsIdentifier(name) -> Raise
                         [] IsDigit(name) ->
                              IF IntOf(name, 10) > ngroups THEN Raise
                              ELSE Cons(GroupOrAll(s, m, IntOf(name, 10)),
                                        ExpandFrom(tpl, close + 1, s, m, ngroups)))
         [] c = "0" ->
              LET n == IF d2 \in OctDigits THEN (IF d3 \in OctDigits THEN 3 ELSE 2) ELSE 1
              IN Cons(Chr(IntOf(SubSeq(tpl, i + 1, i + n), 8) % 256),
                      ExpandFrom(tpl, i + 1 + n, s, m, ngroups))
         [] c \in Digit \ {"0"} ->
              IF d2 \in Digit /\ c \in OctDigits /\ d2 \in OctDigits /\ d3 \in OctDigits
              THEN IF IntOf(SubSeq(tpl, i + 1, i + 3), 8) > 255 THEN Raise
                   ELSE Cons(Chr(IntOf(SubSeq(tpl, i + 1, i + 3), 8)),
                             ExpandFrom(tpl, i + 4, s, m, ngroups))
              ELSE LET n == IF d2 \in Digit THEN 2 ELSE 1
                       index == IntOf(SubSeq(tpl, i + 1, i + n), 10)
                   IN IF index > ngroups THEN Raise
                      ELSE Cons(Group(s, m, index),
                                ExpandFrom(tpl, i + 1 + n, s, m, ngroups))
         [] c = "f"  -> Cons("\f", ExpandFrom(tpl, i + 2, s, m, ngroups))
         [] c = "n"  -> Cons("\n", ExpandFrom(tpl, i + 2, s, m, ngroups))
         [] c = "r"  -> Cons("\r", ExpandFrom(tpl, i + 2, s, m, ngroups))
         [] c = "t"  -> Cons("\t", ExpandFrom(tpl, i + 2, s, m, ngroups))
         [] c = "\\" -> Cons("\\", ExpandFrom(tpl, i + 2, s, m, ngroups))
         [] c \in AsciiLetters \ {"a", "b", "f", "g", "n", "r", "t", "v"} -> Raise
         [] c \notin AsciiLetters \cup Digit \cup {"\\"} ->
              Cons("\\" \o c, ExpandFrom(tpl, i + 2, s, m, ngroups))

\* the literal text of tpl from i to j - 1, and what follows it
ExpandLiteral(tpl, i, j, s, m, ngroups) ==
  Cons(SubSeq(tpl, i, j - 1), ExpandFrom(tpl, j, s, m, ngroups))

ExpandTemplate(tpl, s, m, ngroups) == ExpandFrom(tpl, 1, s, m, ngroups)

\* a result extended by a gap and the next replacement
Extend(r, gap, next) ==
  IF r.err \/ next.err THEN Raise ELSE Ok(r.s \o gap \o next.s)

\* s with its matches ms replaced, by a replacement that may raise
SubAllE(ms, s, Repl(_)) ==
  LET out[k \in 0..Len(ms)] ==
        IF k = 0 THEN Ok("")
        ELSE Extend(out[k - 1],
                    SubSeq(s, IF k = 1 THEN 1 ELSE ms[k - 1].end, ms[k].start - 1),
                    Repl(ms[k]))
  IN IF ms = <<>> THEN Ok(s)
     ELSE Extend(out[Len(ms)], SubSeq(s, ms[Len(ms)].end, Len(s)), Ok(""))

\* re.sub with a replacement that may raise
SubE(p, s, ic, Repl(_)) == SubAllE(FindAll(p, s, ic), s, Repl)

(***************************************************************************)
(* Rules 15-18: presentational attributes to CSS.                          *)
(***************************************************************************)
\* r'\balign=(["\'])(.*?)\1' and the like
ValueRe(name) ==
  <<WordB>> \o Lit(name \o "=") \o <<Grp(1, <<In(Quote)>>), Grp(2, <<Lazy(Dot, 0)>>), Ref(1)>>
\* r'\balign=(["\'])[^"\']*["\']' and the like
AttrRe(name) ==
  <<WordB>> \o Lit(name \o "=") \o <<Grp(1, <<In(Quote)>>), Rep(NotQ, 0), In(Quote)>>
\* r'\bwidth=(["\'])(\d+(?:\.\d+)?(?:%|em|px|rem|vw|vh)?)(["\'])' and the like
SizeRe(name) ==
  <<WordB>> \o Lit(name \o "=")
    \o <<Grp(1, <<In(Quote)>>),
         Grp(2, <<Rep(In(Digit), 1), Opt(<<Ch("."), Rep(In(Digit), 1)>>),
                  Opt(<<Alt(<<Lit("%"), Lit("em"), Lit("px"), Lit("rem"), Lit("vw"), Lit("vh")>>)>>)>>),
         Grp(3, <<In(Quote)>>)>>
\* r'\bborder=(["\'])(\d+)(["\'])'
BorderRe ==
  <<WordB>> \o Lit("border=")
    \o <<Grp(1, <<In(Quote)>>), Grp(2, <<Rep(In(Digit), 1)>>), Grp(3, <<In(Quote)>>)>>
\* r'style=(["\'])(.*?)\1'; r'style=(["\']).*?\1' matches the same text
StyleRe == Lit("style=") \o <<Grp(1, <<In(Quote)>>), Grp(2, <<Lazy(Dot, 0)>>), Ref(1)>>
\* r'(\w+)=(["\'])(.*?)\2'
AttrPairRe ==
  <<Grp(1, <<Rep(In(Word), 1)>>), Ch("="), Grp(2, <<In(Quote)>>),
    Grp(3, <<Lazy(Dot, 0)>>), Ref(2)>>
\* r'\s*/\s*>'
SlashGtRe == <<Sp0, Ch("/"), Sp0, Ch(">")>>
\* the tag patterns of rules 15, 16 and 17: (<names)((?:\s+[^>]*)?)(\s*>)
TagRe(names) ==
  <<Grp(1, <<Ch("<"), Alt(names)>>), Grp(2, <<Opt(<<Sp1, Rep(NotGt, 0)>>)>>),
    Grp(3, <<Sp0, Ch(">")>>)>>
BlockTagRe ==
  TagRe(<<Lit("hr"), Lit("table"), Lit("td"), Lit("th"), Lit("div"), Lit("p"),
          <<Ch("h"), In({"1", "2", "3", "4", "5", "6"})>> >>)
TableTagRe == TagRe(<<Lit("table")>>)
CellTagRe  == TagRe(<<Lit("td"), Lit("th")>>)
\* r'<img[^>]+>'
ImgTagRe == Lit("<img") \o <<Rep(NotGt, 1), Ch(">")>>

\* merge_styles as it would be without the "+ ';'" of its return statements
MergeUnterminated(old_style, new_styles) ==
  IF new_styles = "" THEN old_style
  ELSE Join(StrippedParts(Split(Strip(old_style, Quote), ";"))
              \o StrippedParts(Split(new_styles, ";")), "; ")

merge_styles(old_style, new_styles) ==
  IF new_styles = "" THEN old_style
  ELSE IF old_style = ""
       THEN Join(StrippedParts(Split(new_styles, ";")), "; ") \o ";"
       ELSE Join(StrippedParts(Split(Strip(old_style, Quote), ";"))
                   \o StrippedParts(Split(new_styles, ";")), "; ") \o ";"

\* a value that is a bare number gets px
WithPx(value) == IF IsDigit(value) THEN value \o "px" ELSE value

\* re.sub(r'style=(["\']).*?\1', f'style="{new_style}"', attrs): the merged
\* style is pasted into the replacement template
SetStyle(attrs, new_style) ==
  SubE(StyleRe, attrs, FALSE,
       LAMBDA m : ExpandTemplate("style=\"" \o new_style \o "\"", attrs, m, 1))

\* the locals attrs and styles of convert_alignment_and_width and of
\* convert_cell_attrs_to_style after "if m:" for the match m of an attribute:
\* its declaration is appended, the attribute removed by re.sub(removeRe, '')
Taken(st, m, removeRe, decl) ==
  IF m.ok
  THEN [attrs  |-> Sub(removeRe, st.attrs, FALSE, Delete),
        styles |-> st.styles \o <<decl>>]
  ELSE st

TakeAlign(st, m, removeRe) ==
  Taken(st, m, removeRe, "text-align: " \o Group(st.attrs, m, 2) \o ";")
TakeWidth(st, m) ==
  Taken(st, m, AttrRe("width"), "width: " \o WithPx(Group(st.attrs, m, 2)) \o ";")
TakeValign(st, m) ==
  Taken(st, m, ValueRe("valign"), "vertical-align: " \o Group(st.attrs, m, 2) \o ";")

\* "if style_match:" merge into the existing style attribute, "else:" the
\* attributes become the new style attribute alone
MergeOrNew(attrs, new_styles, style_match) ==
  IF style_match.ok
  THEN SetStyle(attrs, merge_styles(Group(attrs, style_match, 2), new_styles))
  ELSE Ok(" style=\"" \o new_styles \o "\"")

\* "if styles:"
AddStyles(st) ==
  IF st.styles = <<>> THEN Ok(st.attrs)
  ELSE MergeOrNew(st.attrs, Join(st.styles, " "), Search(StyleRe, st.attrs, FALSE))

\* the return statements of both functions
Retag(tag_start, attrs, tag_end) ==
  IF attrs.err THEN Raise
  ELSE IF Strip(attrs.s, Space) # ""
       THEN Ok(tag_start \o " " \o Strip(attrs.s, Space) \o tag_end)
       ELSE Ok(tag_start \o tag_end)

NoStyles(attrs) == [attrs |-> attrs, styles |-> <<>>]

AlignTaken(attrs) ==
  TakeAlign(NoStyles(attrs), Search(ValueRe("align"), attrs, FALSE), AttrRe("align"))
WidthTaken(st) == TakeWidth(st, Search(SizeRe("width"), st.attrs, FALSE))

convert_alignment_and_width(tag_start, attrs, tag_end) ==
  Retag(tag_start, AddStyles(WidthTaken(AlignTaken(attrs))), tag_end)

\* rule 15
ConvertAlignWidth(content) ==
  SubE(BlockTagRe, content, TRUE,
       LAMBDA m : convert_alignment_and_width(Group(content, m, 1), Group(content, m, 2),
                                              Group(content, m, 3)))

\* the for loop of convert_table_attributes over the matches ms of
\* re.finditer(r'(\w+)=(["\'])(.*?)\2', attrs)
TableAttrLoop(ms, attrs) ==
  LET acc[k \in 0..Len(ms)] ==
        IF k = 0 THEN [styles |-> <<>>, new_attrs |-> <<>>]
        ELSE LET name  == Group(attrs, ms[k], 1)
                 value == Group(attrs, ms[k], 3)
             IN CASE name = "cellpadding" ->
                       [acc[k - 1] EXCEPT !.styles = @ \o <<"padding: " \o value \o "px;">>]
                  [] name = "cellspacing" ->
                       [acc[k - 1] EXCEPT
                          !.styles = @ \o <<"border-spacing: " \o value \o "px;">>]
                  [] name = "border" ->
                       [acc[k - 1] EXCEPT
                          !.styles = @ \o <<IF value = "0" THEN "border: none;"
                                            ELSE "border: " \o value \o "px solid;">>]
                  [] name \in {"summary", "style"} -> acc[k - 1]
                  [] OTHER ->
                       [acc[k - 1] EXCEPT
                          !.new_attrs = @ \o <<name \o "=\"" \o value \o "\"">>]
  IN acc[Len(ms)]

ExistingStyle(attrs, style_match) ==
  IF style_match.ok THEN Group(attrs, style_match, 2) ELSE ""

\* "if all_styles:" and the return statements
TableTag(tag_start, new_attrs, all_styles, tag_end) ==
  IF all_styles # ""
  THEN tag_start \o " " \o Join(new_attrs \o <<"style=\"" \o all_styles \o "\"">>, " ")
         \o tag_end
  ELSE IF new_attrs # <<>> THEN tag_start \o " " \o Join(new_attrs, " ") \o tag_end
       ELSE tag_start \o tag_end

TableLooped(tag_start, attrs, loop, tag_end) ==
  TableTag(tag_start, loop.new_attrs,
           merge_styles(ExistingStyle(attrs, Search(StyleRe, attrs, FALSE)),
                        Join(loop.styles, " ")),
           tag_end)

convert_table_attributes(tag_start, attrs, tag_end) ==
  TableLooped(tag_start, attrs, TableAttrLoop(FindAll(AttrPairRe, attrs, FALSE), attrs),
              tag_end)

\* rule 16
ConvertTableAttrs(content) ==
  Sub(TableTagRe, content, TRUE,
      LAMBDA m : convert_table_attributes(Group(content, m, 1), Group(content, m, 2),
                                          Group(content, m, 3)))

CellAlignTaken(attrs) ==
  TakeAlign(NoStyles(attrs), Search(ValueRe("align"), attrs, FALSE), ValueRe("align"))
ValignTaken(st) == TakeValign(st, Search(ValueRe("valign"), st.attrs, FALSE))

convert_cell_attrs_to_style(tag_start, attrs, tag_end) ==
  Retag(tag_start, AddStyles(ValignTaken(CellAlignTaken(attrs))), tag_end)

\* rule 17
ConvertCellAttrs(content) ==
  SubE(CellTagRe, content, TRUE,
       LAMBDA m : convert_cell_attrs_to_style(Group(content, m, 1), Group(content, m, 2),
                                              Group(content, m, 3)))

\* re.sub(r'\bwidth=(["\'])[^"\']*["\']', '', full_tag) "if width_match:"
RemoveIf(found, name, full_tag) ==
  IF found THEN Sub(AttrRe(name), full_tag, FALSE, Delete) ELSE full_tag

\* the styles of convert_img_sizes for the matches w, h, b of width, height, border
ImgStyles(full_tag, w, h, b) ==
  (IF w.ok THEN <<"width: " \o WithPx(Group(full_tag, w, 2))>> ELSE <<>>)
  \o (IF h.ok THEN <<"height: " \o WithPx(Group(full_tag, h, 2))>> ELSE <<>>)
  \o (IF b.ok
      THEN <<IF Group(full_tag, b, 2) = "0" THEN "border: none"
             ELSE "border: " \o Group(full_tag, b, 2) \o "px solid">>
      ELSE <<>>)

\* "clean up the tag before adding style"
ImgCleaned(full_tag) ==
  RStrip(Sub(<<Sp1>>, Sub(SlashGtRe, full_tag, FALSE, LAMBDA m : ">"), FALSE, LAMBDA m : " "),
         {">"})

\* "add or merge style attribute"
ImgStyled(full_tag, new_styles, style_match) ==
  IF style_match.ok
  THEN SetStyle(full_tag, merge_styles(Group(full_tag, style_match, 2), new_styles))
  ELSE Ok(Strip(full_tag, Space) \o " style=\"" \o new_styles \o "\"")

ImgRestyled(full_tag, new_styles) ==
  Extend(ImgStyled(full_tag, new_styles, Search(StyleRe, full_tag, FALSE)), ">", Ok(""))

ImgConverted(full_tag, w, h, b) ==
  IF w.ok \/ h.ok \/ b.ok
  THEN ImgRestyled(ImgCleaned(RemoveIf(b.ok, "border",
                                RemoveIf(h.ok, "height", RemoveIf(w.ok, "width", full_tag)))),
                   Join(ImgStyles(full_tag, w, h, b), "; "))
  ELSE Ok(Sub(SlashGtRe, full_tag, FALSE, LAMBDA m : ">"))

convert_img_sizes(full_tag) ==
  ImgConverted(full_tag, Search(SizeRe("width"), full_tag, FALSE),
               Search(SizeRe("height"), full_tag, FALSE), Search(BorderRe, full_tag, FALSE))

\* rule 18
ConvertImgSizes(content) ==
  SubE(ImgTagRe, content, TRUE, LAMBDA m : convert_img_sizes(MatchText(content, m)))

\* the number of the last rule of convert_to_html5, re.sub(r'/>', '>', content)
LastRule == 19

(***************************************************************************)
(* The documents the converter is run on.                                  *)
(***************************************************************************)
\* the most lang attributes on a generated <html> tag, and the most
\* charset-declaring <meta> tags in a generated <head>
MaxLangs == 2
MaxMetas == 2

LangValues   == <<"de", "fr", "it", "es">>
CharsetNames == <<"latin1", "ascii", "koi8", "big5">>

RECURSIVE LangAttrs(_), CharsetMetas(_)
LangAttrs(k) ==
  IF k = 0 THEN "" ELSE LangAttrs(k - 1) \o " lang=\"" \o LangValues[k] \o "\""
CharsetMetas(k) ==
  IF k = 0 THEN ""
  ELSE CharsetMetas(k - 1) \o "<meta charset=\"" \o CharsetNames[k] \o "\">"

\* <html> with k lang attributes and a <head> with m charset metas
HtmlDoc(k, m) ==
  "<html" \o LangAttrs(k) \o "><head>" \o CharsetMetas(m) \o "</head></html>"

TableDoc ==
  "<table border=\"0\" cellpadding=\"5\" summary=\"x\"><tr><td align=\"center\">hi</td></tr></table>"

ScenarioDocs ==
  { TableDoc,
    "<img src=\"a.png\" width=\"100\" height=\"50\" border=\"1\" />",
    "<img width=\"50%\" style=\"b: c\" height=\"2em\">",
    "<img style=\"a\\q\" width=\"5\">",
    "<a name=\"sec1\">text</a>",
    "<a id=\"x\" name=\"y\">t</a>",
    "<a name=\"y\" id=\"x\">t</a>",
    "<a name=\"x\" id=\"x\">t</a>",
    "<a id='x' name='x' href=\"u\">t</a>",
    "<?xml version=\"1.0\"?>\n\n<!DOCTYPE html PUBLIC \"x\">\n<html xmlns=\"u\" xml:lang=\"it\">",
    "<?x<?xml?>ml?>",
    "<?xml?><br/>",
    "<HTML><HEAD></HEAD></HTML>",
    "<html lang='de'>",
    "<head><header>h</header></head>",
    "<p>no head</p>",
    "<head>\n<meta http-equiv=\"Content-Type\" content=\"text/html\" />\n<meta http-equiv=\"Content-Style-Type\" content=\"text/css\" />\n</head>",
    "<p align=\"center\" class=\"x\">t</p>",
    "<p class=\"x\" style=\"a: b\" align=\"center\">t</p>",
    "<div style=\"a: b; c: d\" width=\"50%\" id=\"i\">",
    "<p style=\"font-family: 'Arial'\" align=\"center\">",
    "<P STYLE=\"a: b\" align=\"center\">",
    "<p align=\"left\" style=\"a\\q\">",
    "<table width=\"100\" border=\"1\">",
    "<table id='t' cellspacing=\"2\" style=\"x: y\" border=\"3\">",
    "<td align=\"left\" valign=\"top\">",
    "<td style=\"a:b\" align=\"left\" valign=\"top\" class=\"c\">",
    "<th valign=\"top\" style=\"a\\q\">",
    "<p>a // --></p><style>a // --></style>",
    "<style type=\"text/css\">/*<![CDATA[*/ a {b} /*]]>*/</style>",
    "<style><![CDATA[ a ]]></style><style>b /* XML end ]]> */ c ]]></style>",
    "<tt class=\"a\">x</tt><big>y</big><center>z</center>",
    "<hr />",
    "<h1 align=\"right\">a\fb</h1>",
    "<pre xml:space=\"preserve\">x</pre>" }

Docs == ScenarioDocs \cup {HtmlDoc(k, m) : k \in 0..MaxLangs, m \in 0..MaxMetas}

\* the --lang argument: its default, and another code
Langs == {"en", "nl"}

(***************************************************************************)
(* The state machine: convert_to_html5 applied to a document, one rule at  *)
(* a time, and then applied once more to its own output.                   *)
(***************************************************************************)
VARIABLES
  input,    \* the document convert_to_html5 was first called with
  lang,     \* the lang argument
  content,  \* the buffer
  prev,     \* the buffer before the last rule applied
  pc,       \* the number of rules applied in this call
  run,      \* 1: the call on the input, 2: the call on the first call's output
  first,    \* the first call's return value, once it has returned
  raised    \* an exception left convert_to_html5

vars == <<input, lang, content, prev, pc, run, first, raised>>

Init ==
  /\ input \in Docs
  /\ lang \in Langs
  /\ content = input
  /\ prev = input
  /\ pc = 0
  /\ run = 1
  /\ first = ""
  /\ raised = FALSE

\* rule k applied to the buffer, r being the next buffer or the exception
Step(k, r) ==
  /\ pc = k - 1
  /\ ~raised
  /\ raised' = r.err
  /\ content' = IF r.err THEN content ELSE r.s
  /\ prev' = IF r.err THEN prev ELSE content
  /\ pc' = IF r.err THEN pc ELSE k
  /\ UNCHANGED <<input, lang, run, first>>

StripControlStep        == Step(1, Ok(StripControl(content)))
RemoveXmlDeclStep       == Step(2, Ok(RemoveXmlDecl(content)))
ReplaceDoctypeStep      == Step(3, Ok(ReplaceDoctype(content)))
CleanHtmlTagStep        == Step(4, Ok(CleanHtmlTag(content, lang)))
RemoveStyleTypeMetaStep == Step(5, Ok(RemoveStyleTypeMeta(content)))
CharsetMetaStep         == Step(6, Ok(CharsetMeta(content)))
RemoveXmlSpaceStep      == Step(7, Ok(RemoveXmlSpace(content)))
StripStyleTypeStep      == Step(8, Ok(StripStyleType(content)))
UnwrapCdataStep         == Step(9, Ok(UnwrapCdata(content)))
CleanStyleCssStep       == Step(10, Ok(CleanStyleCss(content)))
ConvertTtStep           == Step(11, Ok(ConvertTt(content)))
ConvertBigStep          == Step(12, Ok(ConvertBig(content)))
ConvertCenterStep       == Step(13, Ok(ConvertCenter(content)))
ConvertAnchorsStep      == Step(14, Ok(ConvertAnchors(content)))
ConvertAlignWidthStep   == Step(15, ConvertAlignWidth(content))
ConvertTableAttrsStep   == Step(16, Ok(ConvertTableAttrs(content)))
ConvertCellAttrsStep    == Step(17, ConvertCellAttrs(content))
ConvertImgSizesStep     == Step(18, ConvertImgSizes(content))
StripSelfClosingStep    == Step(19, Ok(StripSelfClosing(content)))

\* the first call has returned; its return value is converted again
ConvertAgain ==
  /\ pc = LastRule
  /\ run = 1
  /\ ~raised
  /\ first' = content
  /\ run' = 2
  /\ pc' = 0
  /\ prev' = content
  /\ UNCHANGED <<input, lang, content, raised>>

Next ==
  \/ StripControlStep
  \/ RemoveXmlDeclStep
  \/ ReplaceDoctypeStep
  \/ CleanHtmlTagStep
  \/ RemoveStyleTypeMetaStep
  \/ CharsetMetaStep
  \/ RemoveXmlSpaceStep
  \/ StripStyleTypeStep
  \/ UnwrapCdataStep
  \/ CleanStyleCssStep
  \/ ConvertTtStep
  \/ ConvertBigStep
  \/ ConvertCenterStep
  \/ ConvertAnchorsStep
  \/ ConvertAlignWidthStep
  \/ ConvertTableAttrsStep
  \/ ConvertCellAttrsStep
  \/ ConvertImgSizesStep
  \/ StripSelfClosingStep
  \/ ConvertAgain

Spec == Init /\ [][Next]_vars

\* convert_to_html5 has returned from the call on the input
Returned == run = 2 \/ (pc = LastRule /\ ~raised)
\* what it returned
Output == IF run = 2 THEN first ELSE content


(***************************************************************************)
(* What the properties below read from a document.                         *)
(***************************************************************************)
\* doc has text as a substring
Contains(doc, text) == Search(Lit(text), doc, FALSE).ok

\* the texts of the matches of a pattern in doc, from left to right
Texts(p, doc, ic) ==
  LET ms == FindAll(p, doc, ic) IN [k \in 1..Len(ms) |-> MatchText(doc, ms[k])]

\* the text of the first match of a pattern in doc, "" when there is none
FirstText(p, doc, ic) ==
  LET m == Search(p, doc, ic) IN IF m.ok THEN MatchText(doc, m) ELSE ""

\* a is a prefix of b
IsPrefix(a, b) == Len(a) <= Len(b) /\ SubSeq(b, 1, Len(a)) = a

\* an attribute of the given name with a quoted value, in either kind of quotes
NamedAttrRe(name) ==
  <<In(Space)>> \o Lit(name \o "=") \o <<Grp(1, <<In(Quote)>>), Grp(2, <<Lazy(Dot, 0)>>), Ref(1)>>

\* the values of the attributes of that name on a tag, in document order
ValuesOn(tag, name) ==
  LET ms == FindAll(NamedAttrRe(name), tag, TRUE) IN [k \in 1..Len(ms) |-> Group(tag, ms[k], 2)]

\* the <name, value> pairs of the quoted attributes of a tag
AttrsOn(tag) ==
  LET ms == FindAll(AttrPairRe, tag, FALSE)
  IN {<<Group(tag, ms[k], 1), Group(tag, ms[k], 3)>> : k \in 1..Len(ms)}

\* the declarations of the style attribute of a tag
StyleDecls(tag) ==
  IF ValuesOn(tag, "style") = <<>> THEN <<>>
  ELSE StrippedParts(Split(ValuesOn(tag, "style")[1], ";"))

\* the opening <html ...> tag of a document, the tag name in any case
HtmlTagOf(doc) == FirstText(HtmlTagRe, doc, TRUE)

\* the <a ...> tags of a document
AnchorTagRe == Lit("<a") \o <<In(Space), Rep(NotGt, 0), Ch(">")>>

\* the <meta> tags of a document that declare a charset
CharsetMetasOf(doc) == Texts(CharsetMetaRe, doc, TRUE)

\* an XML declaration, <?xml ... ?>
HasXmlDecl(doc) == Search(Lit("<?xml") \o <<Rep(NotGt, 0)>> \o Lit("?>"), doc, TRUE).ok

\* a document with the content of every style element blanked
OutsideStyle(doc) == Sub(StyleElemRe, doc, TRUE, LAMBDA m : "<style></style>")

\* the tags rule k of rules 15-18 rewrites, and the attributes it translates
RuleTagRe(k) ==
  CASE k = 15 -> BlockTagRe [] k = 16 -> TableTagRe [] k = 17 -> CellTagRe [] k = 18 -> ImgTagRe
Consumed(k) ==
  CASE k = 15 -> {"align", "width"}
    [] k = 16 -> {"cellpadding", "cellspacing", "border", "summary"}
    [] k = 17 -> {"align", "valign"}

\* the tags of rule k before and after the rule just applied, when the rule
\* kept their number: the j-th tag after is the j-th tag before, rewritten
TagsBefore == Texts(RuleTagRe(pc), prev, TRUE)
TagsAfter  == Texts(RuleTagRe(pc), content, TRUE)

(***************************************************************************)
(* The properties.                                                         *)
(***************************************************************************)
\* C1: convert_to_html5 is idempotent: the call on the first call's return
\* value returns that value unchanged.
Idempotent == (run = 2 /\ pc = LastRule) => content = first

\* C2: when the input has an opening <html ...> tag (its name in any case),
\* the <html> tag of the output carries exactly one lang attribute: the first
\* lang value of the input's tag if it had one, else the lang argument.
HtmlLangOnce ==
  (Returned /\ HtmlTagOf(input) # "") =>
    ValuesOn(HtmlTagOf(Output), "lang")
      = <<IF ValuesOn(HtmlTagOf(input), "lang") # <<>>
          THEN ValuesOn(HtmlTagOf(input), "lang")[1] ELSE lang>>

\* C3: the output contains exactly one <meta charset="utf-8"> and no other
\* meta tag that declares a charset, whatever charset metas and <head...> tags
\* the input contains (stated for the inputs with a <head...> tag, which have
\* a place for the tag).
OneCharsetMeta ==
  (Returned /\ Search(HeadRe, input, TRUE).ok) => CharsetMetasOf(Output) = <<Utf8Meta>>

\* C4, as the spec states it: the table scenario yields the table tag
\* <table style="padding: 5px; border: none;"> and the cell
\* <td style="text-align: center;">hi</td>.
TableScenarioAsStated ==
  (Returned /\ input = TableDoc) =>
    /\ FirstText(TableTagRe, Output, TRUE) = "<table style=\"padding: 5px; border: none;\">"
    /\ Contains(Output, "<td style=\"text-align: center;\">hi</td>")

\* C4, amended: the table scenario yields the table tag
\* <table style="border: none; padding: 5px;">, its declarations in the order
\* of the attributes they come from, with no summary, border or cellpadding
\* attribute left, and the cell <td style="text-align: center;">hi</td>.
TableScenario ==
  (Returned /\ input = TableDoc) =>
    /\ FirstText(TableTagRe, Output, TRUE) = "<table style=\"border: none; padding: 5px;\">"
    /\ Contains(Output, "<td style=\"text-align: center;\">hi</td>")

\* the table scenario has been converted
TableScenarioConverted ==
  /\ Returned
  /\ input = TableDoc
  /\ Contains(Output, "<table ")

\* C5: a tag that rules 15-18 rewrite and that carries a style attribute ends
\* with a single style attribute whose declarations begin with all the
\* original declarations, in their order, none dropped or altered.
StyleDeclsKept ==
  (pc \in 15..18 /\ Len(TagsBefore) = Len(TagsAfter)) =>
    \A j \in 1..Len(TagsBefore) :
      (ValuesOn(TagsBefore[j], "style") # <<>> /\ TagsAfter[j] # TagsBefore[j]) =>
        /\ Len(ValuesOn(TagsAfter[j], "style")) = 1
        /\ IsPrefix(StyleDecls(TagsBefore[j]), StyleDecls(TagsAfter[j]))

\* C6: rule 14 leaves no <a> tag with two id attributes that the tag did not
\* have before the rule: name becomes id only on a tag without an id.
NoSecondId ==
  (pc = 14 /\ Len(Texts(AnchorTagRe, prev, TRUE)) = Len(Texts(AnchorTagRe, content, TRUE))) =>
    \A j \in 1..Len(Texts(AnchorTagRe, prev, TRUE)) :
      Len(ValuesOn(Texts(AnchorTagRe, content, TRUE)[j], "id")) >= 2 =>
        Len(ValuesOn(Texts(AnchorTagRe, prev, TRUE)[j], "id")) >= 2

\* C7: the output of an input that contains an XML declaration contains no
\* XML declaration.
NoXmlDeclLeft == (Returned /\ HasXmlDecl(input)) => ~HasXmlDecl(Output)

\* C8: convert_to_html5 never raises.
NeverRaises == ~raised

\* C9: rules 15-17 remove only the attributes they translate: every other
\* attribute of a tag they rewrite, the style attribute apart, is still on the
\* tag after the rule, with its value.
OtherAttrsKept ==
  (pc \in 15..17 /\ Len(TagsBefore) = Len(TagsAfter)) =>
    \A j \in 1..Len(TagsBefore) :
      \A a \in AttrsOn(TagsBefore[j]) :
        a[1] \notin Consumed(pc) \cup {"style"} => a \in AttrsOn(TagsAfter[j])

\* C10: rule 10 changes only text inside <style>...</style> elements: the
\* buffer outside them is the same before and after the rule.
OnlyStyleCleaned == pc = 10 => OutsideStyle(content) = OutsideStyle(prev)

=============================================================================
